---- MODULE Spec2Model ----
(***************************************************************************)
(* Model of the Elasticsearch MCP server (index.js, config.js) and of its  *)
(* PII masking engine (piiMasking.js).                                     *)
(*                                                                         *)
(* A JavaScript string is a sequence of one-character strings.  A regular  *)
(* expression is a sequence of items matched by a backtracking matcher     *)
(* with the priorities of the ECMAScript semantics (greedy quantifiers,    *)
(* alternatives tried left to right).                                      *)
(***************************************************************************)
EXTENDS Integers, Sequences, FiniteSets, TLC

\* ------------------------------------------------------------------------
\* Character classes of the regular expressions in PII_PATTERNS
\* ------------------------------------------------------------------------

\* \d
Digit == {"0", "1", "2", "3", "4", "5", "6", "7", "8", "9"}

\* A-Z
Upper == {"A", "B", "C", "D", "E", "F", "G", "H", "I", "J", "K", "L", "M",
          "N", "O", "P", "Q", "R", "S", "T", "U", "V", "W", "X", "Y", "Z"}

\* a-z
Lower == {"a", "b", "c", "d", "e", "f", "g", "h", "i", "j", "k", "l", "m",
          "n", "o", "p", "q", "r", "s", "t", "u", "v", "w", "x", "y", "z"}

\* \w, the class \b is defined by
WordChar == Digit \cup Upper \cup Lower \cup {"_"}

\* \s (the ASCII members)
Space == {" ", "\t", "\n", "\r", "\f"}

\* [A-Za-z0-9._%+-]
EmailLocalChar == Upper \cup Lower \cup Digit \cup {".", "_", "%", "+", "-"}

\* [A-Za-z0-9.-]
EmailDomainChar == Upper \cup Lower \cup Digit \cup {".", "-"}

\* [A-Z|a-z]: the bar is a member of the class
EmailTldChar == Upper \cup Lower \cup {"|"}

\* ------------------------------------------------------------------------
\* Regular expression items
\* ------------------------------------------------------------------------

\* \b
WordB == [k |-> "b"]

\* X{min,max}, greedy; unbounded = TRUE is X{min,}
Rep(set, min, max) == [k |-> "cls", set |-> set, min |-> min, max |-> max, unbounded |-> FALSE]

\* X{min,}, greedy
AtLeast(set, min) == [k |-> "cls", set |-> set, min |-> min, max |-> min, unbounded |-> TRUE]

\* a literal character
Lit(c) == Rep({c}, 1, 1)

\* (?:body)?, greedy
Opt(body) == [k |-> "opt", body |-> body]

\* (?:left|right)
Alt(left, right) == [k |-> "alt", left |-> left, right |-> right]

\* ------------------------------------------------------------------------
\* The matcher: the end of the match of a pattern at a position
\* ------------------------------------------------------------------------

IsWordAt(s, i) == i >= 1 /\ i <= Len(s) /\ s[i] \in WordChar

\* \b holds at i (between s[i-1] and s[i]) when exactly one side is a word character
AtBoundary(s, i) == IsWordAt(s, i - 1) # IsWordAt(s, i)

RECURSIVE RunLen(_, _, _, _)
\* how many characters from position i on are in the class, at most cap
RunLen(set, s, i, cap) ==
  IF cap = 0 \/ i > Len(s) \/ s[i] \notin set THEN 0
  ELSE 1 + RunLen(set, s, i + 1, cap - 1)

RECURSIVE MatchHere(_, _, _), TryRepeat(_, _, _, _, _)

\* a greedy quantifier took k characters: the rest of the pattern is tried after
\* them, and on failure after one fewer, down to min
TryRepeat(rest, s, i, k, min) ==
  IF k < min THEN 0
  ELSE LET r == MatchHere(rest, s, i + k)
       IN  IF r # 0 THEN r ELSE TryRepeat(rest, s, i, k - 1, min)

\* The position after the match of the items at position i of s, as the
\* backtracking matcher finds it; 0 when there is no match at i.
MatchHere(items, s, i) ==
  IF items = <<>> THEN i
  ELSE LET h == Head(items)
           rest == Tail(items)
       IN  CASE h.k = "b" ->
                  IF AtBoundary(s, i) THEN MatchHere(rest, s, i) ELSE 0
             [] h.k = "cls" ->
                  TryRepeat(rest, s, i,
                            RunLen(h.set, s, i, IF h.unbounded THEN Len(s) ELSE h.max),
                            h.min)
             [] h.k = "opt" ->
                  LET r == MatchHere(h.body \o rest, s, i)
                  IN  IF r # 0 THEN r ELSE MatchHere(rest, s, i)
             [] h.k = "alt" ->
                  LET r == MatchHere(h.left \o rest, s, i)
                  IN  IF r # 0 THEN r ELSE MatchHere(h.right \o rest, s, i)

\* ------------------------------------------------------------------------
\* PII_PATTERNS: the registry of rules
\* ------------------------------------------------------------------------

\* Object.keys(PII_PATTERNS): the keys in the order the literal writes them
PatternKeys == <<"cpr", "email", "phone", "creditCard", "ssn">>

\* /\b\d{6}-?\d{4}\b/g
CprPattern ==
  <<WordB, Rep(Digit, 6, 6), Opt(<<Lit("-")>>), Rep(Digit, 4, 4), WordB>>

\* /\b[A-Za-z0-9._%+-]+@[A-Za-z0-9.-]+\.[A-Z|a-z]{2,}\b/g
EmailPattern ==
  <<WordB, AtLeast(EmailLocalChar, 1), Lit("@"), AtLeast(EmailDomainChar, 1),
    Lit("."), AtLeast(EmailTldChar, 2), WordB>>

\* /\b(?:\+45\s?)?(?:\d{2}\s?\d{2}\s?\d{2}\s?\d{2}|\d{8})\b/g
PhonePattern ==
  <<WordB,
    Opt(<<Lit("+"), Lit("4"), Lit("5"), Rep(Space, 0, 1)>>),
    Alt(<<Rep(Digit, 2, 2), Rep(Space, 0, 1), Rep(Digit, 2, 2), Rep(Space, 0, 1),
          Rep(Digit, 2, 2), Rep(Space, 0, 1), Rep(Digit, 2, 2)>>,
        <<Rep(Digit, 8, 8)>>),
    WordB>>

\* /\b\d{4}[\s-]?\d{4}[\s-]?\d{4}[\s-]?\d{4}\b/g
CreditCardPattern ==
  <<WordB, Rep(Digit, 4, 4), Rep(Space \cup {"-"}, 0, 1), Rep(Digit, 4, 4),
    Rep(Space \cup {"-"}, 0, 1), Rep(Digit, 4, 4), Rep(Space \cup {"-"}, 0, 1),
    Rep(Digit, 4, 4), WordB>>

\* /\b\d{3}-\d{2}-\d{4}\b/g
SsnPattern ==
  <<WordB, Rep(Digit, 3, 3), Lit("-"), Rep(Digit, 2, 2), Lit("-"), Rep(Digit, 4, 4), WordB>>

\* '******-****'
CprMask == <<"*", "*", "*", "*", "*", "*", "-", "*", "*", "*", "*">>

\* '** ** ** **'
PhoneMask == <<"*", "*", " ", "*", "*", " ", "*", "*", " ", "*", "*">>

\* '**** **** **** ****'
CreditCardMask ==
  <<"*", "*", "*", "*", " ", "*", "*", "*", "*", " ",
    "*", "*", "*", "*", " ", "*", "*", "*", "*">>

\* '***-**-****'
SsnMask == <<"*", "*", "*", "-", "*", "*", "-", "*", "*", "*", "*">>

PII_PATTERNS ==
  [key \in {"cpr", "email", "phone", "creditCard", "ssn"} |->
     CASE key = "cpr" -> [pattern |-> CprPattern, constant |-> TRUE, text |-> CprMask]
       [] key = "email" -> [pattern |-> EmailPattern, constant |-> FALSE, text |-> <<>>]
       [] key = "phone" -> [pattern |-> PhonePattern, constant |-> TRUE, text |-> PhoneMask]
       [] key = "creditCard" ->
            [pattern |-> CreditCardPattern, constant |-> TRUE, text |-> CreditCardMask]
       [] key = "ssn" -> [pattern |-> SsnPattern, constant |-> TRUE, text |-> SsnMask]]

RECURSIVE SplitFrom(_, _, _, _, _)
\* String.prototype.split on a one-character separator
SplitFrom(s, sep, i, cur, parts) ==
  IF i > Len(s) THEN Append(parts, cur)
  ELSE IF s[i] = sep THEN SplitFrom(s, sep, i + 1, <<>>, Append(parts, cur))
  ELSE SplitFrom(s, sep, i + 1, Append(cur, s[i]), parts)

Split(s, sep) == SplitFrom(s, sep, 1, <<>>, <<>>)

\* s.substring(0, n)
Substring0(s, n) == SubSeq(s, 1, IF n < Len(s) THEN n ELSE Len(s))

\* a variant of EmailReplacement that keeps three characters of the local part
EmailReplacementThree(match) ==
  LET parts == Split(match, "@")
  IN  Substring0(parts[1], 3) \o <<"*", "*", "*", "@">> \o parts[2]

\* the replacement function of the email rule; parts[0] and parts[1] of the
\* source are the first and the second part here
EmailReplacement(match) ==
  LET parts == Split(match, "@")
  IN  Substring0(parts[1], 2) \o <<"*", "*", "*", "@">> \o parts[2]

\* what replace() puts in the place of one match of a rule
Replacement(rule, match) ==
  IF rule.constant THEN rule.text ELSE EmailReplacement(match)

RECURSIVE ReplaceFrom(_, _, _, _)
\* String.prototype.replace with a global pattern, from position i on: the
\* matches are found left to right on the original string, each is replaced
\* and the scan goes on after it; a character no match starts at is copied.
\* An empty match is replaced and the scan advances over one character.
ReplaceFrom(rule, s, i, out) ==
  IF i > Len(s) + 1 THEN out
  ELSE LET e == MatchHere(rule.pattern, s, i)
       IN  IF e = 0
           THEN IF i > Len(s) THEN out
                ELSE ReplaceFrom(rule, s, i + 1, Append(out, s[i]))
           ELSE IF e = i
           THEN IF i > Len(s) THEN out \o Replacement(rule, SubSeq(s, i, e - 1))
                ELSE ReplaceFrom(rule, s, i + 1,
                                 Append(out \o Replacement(rule, SubSeq(s, i, e - 1)), s[i]))
           ELSE ReplaceFrom(rule, s, e, out \o Replacement(rule, SubSeq(s, i, e - 1)))

\* value.replace(pattern, replacement)
Replace(s, rule) == ReplaceFrom(rule, s, 1, <<>>)

\* ------------------------------------------------------------------------
\* JavaScript values.  A container (array or object) is a reference to a cell
\* of the heap; every other value is immediate.
\* ------------------------------------------------------------------------

Undefined == [t |-> "undefined"]
Null == [t |-> "null"]
Bool(b) == [t |-> "boolean", b |-> b]
Num(n) == [t |-> "number", n |-> n]
Str(s) == [t |-> "string", s |-> s]
Ref(a) == [t |-> "ref", a |-> a]

\* a function: typeof gives 'function'; it is passed around by reference and
\* never looked into, so it stands for itself, told apart by its name
Function(name) == [t |-> "function", name |-> name]

\* the prototype of an object literal
ObjectPrototype == [t |-> "Object.prototype"]

\* an array cell and an object cell; keys lists the own enumerable string keys
\* in the order Object.entries visits them, vals their values
ArrayCell(items) == [t |-> "array", items |-> items]
ObjectCell(keys, vals, proto) == [t |-> "object", keys |-> keys, vals |-> vals, proto |-> proto]

\* a Date: an object with no own enumerable property, whose data is the time
\* value of its internal slot, read through the methods of Date.prototype
DatePrototype == [t |-> "Date.prototype"]
DateCell(time) ==
  [t |-> "object", keys |-> <<>>, vals |-> <<>>, proto |-> DatePrototype, time |-> time]

\* typeof v === 'string'
IsString(v) == v.t = "string"

\* Array.isArray(v)
IsArray(heap, v) == v.t = "ref" /\ heap[v.a].t = "array"

\* typeof v === 'object' (null is tested before it in maskObject)
TypeofObject(heap, v) == v.t = "null" \/ v.t = "ref"

\* ToBoolean: the falsy values are undefined, null, false, 0 and ''
Truthy(v) ==
  CASE v.t = "undefined" -> FALSE
    [] v.t = "null" -> FALSE
    [] v.t = "boolean" -> v.b
    [] v.t = "number" -> v.n # 0
    [] v.t = "string" -> v.s # <<>>
    [] OTHER -> TRUE

\* config[key] of a configuration object: undefined when the key is absent.
\* A configuration is a function from its own keys to values.
GetProp(config, key) == IF key \in DOMAIN config THEN config[key] ELSE Undefined

\* ------------------------------------------------------------------------
\* maskString
\* ------------------------------------------------------------------------

RECURSIVE ApplyPatterns(_, _, _)

\* a variant of ApplyPatterns that applies a rule only when its flag is truthy
ApplyPatternsTruthy(maskedValue, config, i) ==
  IF i > Len(PatternKeys) THEN maskedValue
  ELSE LET patternKey == PatternKeys[i]
       IN  IF Truthy(GetProp(config, patternKey))
           THEN ApplyPatterns(Replace(maskedValue, PII_PATTERNS[patternKey]), config, i + 1)
           ELSE ApplyPatterns(maskedValue, config, i + 1)

\* the forEach over Object.keys(PII_PATTERNS), from key number i on
ApplyPatterns(maskedValue, config, i) ==
  IF i > Len(PatternKeys) THEN maskedValue
  ELSE LET patternKey == PatternKeys[i]
       IN  IF GetProp(config, patternKey) # Bool(FALSE)
           THEN ApplyPatterns(Replace(maskedValue, PII_PATTERNS[patternKey]), config, i + 1)
           ELSE ApplyPatterns(maskedValue, config, i + 1)

maskString(value, config) ==
  IF ~IsString(value) THEN value
  ELSE Str(ApplyPatterns(value.s, config, 1))

\* ------------------------------------------------------------------------
\* maskObject and maskPII.  The heap is a sequence of cells, a reference is
\* an index of it; a new container is a cell appended to the heap.  Both
\* operators return the heap after the call and the value returned.
\* ------------------------------------------------------------------------

\* masked[key] = value on an ordinary object: the key __proto__ is the
\* accessor inherited from Object.prototype, whose setter changes the
\* prototype when the value is an object or null and does nothing otherwise;
\* any other key becomes (or stays) an own property
SetProp(cell, key, value) ==
  IF key = "__proto__"
  THEN IF value.t \in {"ref", "null"} THEN [cell EXCEPT !.proto = value] ELSE cell
  ELSE IF \E j \in 1..Len(cell.keys) : cell.keys[j] = key
  THEN LET j == CHOOSE j \in 1..Len(cell.keys) : cell.keys[j] = key
       IN  [cell EXCEPT !.vals[j] = value]
  ELSE [cell EXCEPT !.keys = Append(@, key), !.vals = Append(@, value)]

RECURSIVE maskObject(_, _, _), MapItems(_, _, _, _, _), MaskEntries(_, _, _, _, _)

\* a variant of MapItems that stores the masked items into the array it was given
MapItemsInPlace(heap, obj, config, i, acc) ==
  IF i > Len(heap[obj.a].items)
  THEN [heap |-> [heap EXCEPT ![obj.a] = ArrayCell(acc)], val |-> obj]
  ELSE LET r == maskObject(heap, heap[obj.a].items[i], config)
       IN  MapItems(r.heap, obj, config, i + 1, Append(acc, r.val))

\* obj.map(item => maskObject(item, config)), from item i on; acc holds the
\* items of the new array so far
MapItems(heap, obj, config, i, acc) ==
  IF i > Len(heap[obj.a].items)
  THEN [heap |-> Append(heap, ArrayCell(acc)), val |-> Ref(Len(heap) + 1)]
  ELSE LET r == maskObject(heap, heap[obj.a].items[i], config)
       IN  MapItems(r.heap, obj, config, i + 1, Append(acc, r.val))

\* the for loop over Object.entries(obj), from entry i on; masked is the new
\* object so far
MaskEntries(heap, obj, config, i, masked) ==
  IF i > Len(heap[obj.a].keys)
  THEN [heap |-> Append(heap, masked), val |-> Ref(Len(heap) + 1)]
  ELSE LET r == maskObject(heap, heap[obj.a].vals[i], config)
       IN  MaskEntries(r.heap, obj, config, i + 1,
                       SetProp(masked, heap[obj.a].keys[i], r.val))

maskObject(heap, obj, config) ==
  IF obj = Null \/ obj = Undefined THEN [heap |-> heap, val |-> obj]
  ELSE IF IsArray(heap, obj) THEN MapItems(heap, obj, config, 1, <<>>)
  ELSE IF TypeofObject(heap, obj)
  THEN MaskEntries(heap, obj, config, 1, ObjectCell(<<>>, <<>>, ObjectPrototype))
  ELSE IF IsString(obj) THEN [heap |-> heap, val |-> maskString(obj, config)]
  ELSE [heap |-> heap, val |-> obj]

\* a variant of maskPII without the gate
maskPIIUngated(heap, results, config) ==
  maskObject(heap, results, IF config = Undefined THEN [key \in {} |-> Undefined] ELSE config)

\* config = {} is the default of an omitted (undefined) second argument
maskPII(heap, results, config) ==
  LET c == IF config = Undefined THEN [key \in {} |-> Undefined] ELSE config
  IN  IF ~Truthy(GetProp(c, "enabled")) THEN [heap |-> heap, val |-> results]
      ELSE maskObject(heap, results, c)

\* getDefaultMaskingConfig()
getDefaultMaskingConfig ==
  [key \in {"enabled", "cpr", "email", "phone", "creditCard", "ssn"} |->
     IF key = "enabled" THEN Bool(FALSE) ELSE Bool(TRUE)]

\* ------------------------------------------------------------------------
\* JSON.stringify(value, null, 2), read back as a tree: a container is
\* written by value with its own enumerable properties only (the prototype
\* is not written); undefined is written as null inside an array and its
\* property is left out of an object
\* ------------------------------------------------------------------------

TreeArray(items) == [t |-> "array", items |-> items]
TreeObject(keys, vals) == [t |-> "object", keys |-> keys, vals |-> vals]

\* new Date(time), where a caller builds a value
TreeDate(time) == [t |-> "date", time |-> time]

RECURSIVE JSONstringify(_, _), StringifyItems(_, _, _, _), StringifyEntries(_, _, _, _, _)

StringifyItems(heap, items, i, acc) ==
  IF i > Len(items) THEN TreeArray(acc)
  ELSE LET x == JSONstringify(heap, items[i])
       IN  StringifyItems(heap, items, i + 1, Append(acc, IF x = Undefined THEN Null ELSE x))

StringifyEntries(heap, cell, i, keys, vals) ==
  IF i > Len(cell.keys) THEN TreeObject(keys, vals)
  ELSE LET x == JSONstringify(heap, cell.vals[i])
       IN  IF x = Undefined THEN StringifyEntries(heap, cell, i + 1, keys, vals)
           ELSE StringifyEntries(heap, cell, i + 1,
                                 Append(keys, cell.keys[i]), Append(vals, x))

JSONstringify(heap, v) ==
  IF v.t # "ref" THEN v
  ELSE IF heap[v.a].t = "array" THEN StringifyItems(heap, heap[v.a].items, 1, <<>>)
  ELSE StringifyEntries(heap, heap[v.a], 1, <<>>, <<>>)

\* ------------------------------------------------------------------------
\* How a caller builds a value: a tree is put on the heap, a cell for each
\* array and each object (an object literal or the result of JSON.parse, so
\* any string is an own key, __proto__ included)
\* ------------------------------------------------------------------------

RECURSIVE Alloc(_, _), AllocAll(_, _, _, _)

\* the trees from number i on, put on the heap one after the other
AllocAll(heap, trees, i, acc) ==
  IF i > Len(trees) THEN [heap |-> heap, vals |-> acc]
  ELSE LET r == Alloc(heap, trees[i])
       IN  AllocAll(r.heap, trees, i + 1, Append(acc, r.val))

Alloc(heap, tree) ==
  IF tree.t = "array"
  THEN LET r == AllocAll(heap, tree.items, 1, <<>>)
       IN  [heap |-> Append(r.heap, ArrayCell(r.vals)), val |-> Ref(Len(r.heap) + 1)]
  ELSE IF tree.t = "object"
  THEN LET r == AllocAll(heap, tree.vals, 1, <<>>)
       IN  [heap |-> Append(r.heap, ObjectCell(tree.keys, r.vals, ObjectPrototype)),
            val |-> Ref(Len(r.heap) + 1)]
  ELSE IF tree.t = "date"
  THEN [heap |-> Append(heap, DateCell(tree.time)), val |-> Ref(Len(heap) + 1)]
  ELSE [heap |-> heap, val |-> tree]

\* ------------------------------------------------------------------------
\* The inputs of the calls of maskPII that are explored
\* ------------------------------------------------------------------------

\* the longest array and the most keys of an object among the input values
MaxLen == 2

\* the most parts an input string is put together from
MaxParts == 2

\* the most calls of maskPII in a row, each on the result of the one before
MaxCalls == 2

RECURSIVE Concat(_)
\* the concatenation of a sequence of strings
Concat(ss) == IF ss = <<>> THEN <<>> ELSE Head(ss) \o Concat(Tail(ss))

\* the sequences of at most n elements of a set
SeqsUpTo(set, n) == UNION {[1..m -> set] : m \in 0..n}

\* fragments of text: separators, digit groups and whole items of each rule
Parts ==
  {<<" ">>,
   <<"x">>,
   <<"+">>,
   <<"-">>,
   <<".">>,
   <<"@">>,
   <<"1", "2">>,
   <<"1", "2", "3", "4">>,
   <<"@", "d", ".", "c", "o", "m">>,
   <<"1", "2", "3", "4", "5", "6", "7", "8">>,
   <<"1", "2", " ", "3", "4", " ", "5", "6", " ", "7", "8">>,
   <<"+", "4", "5">>,
   <<"1", "2", "3", "4", "5", "6", "-", "7", "8", "9", "0">>,
   <<"1", "2", "3", "4", "5", "6", "7", "8", "9", "0">>,
   <<"1", "2", "3", "-", "4", "5", "-", "6", "7", "8", "9">>,
   <<"a", "@", "b", ".", "c", "o", "m">>,
   <<"j", "o", "@", "b", ".", "c", "o", "m">>,
   <<"j", "o", "h", "n", ".", "d", "o", "e", "@", "e", "x", "a", "m", "p", "l", "e", ".", "c", "o", "m">>,
   <<"1", "2", "3", "4", " ", "5", "6", "7", "8", " ", "9", "0", "1", "2", " ", "3", "4", "5", "6">>,
   <<"1", "2", "3", "4", "5", "6", "7", "8", "9", "0", "1", "2", "3", "4", "5", "6">>}

FreeStrings == {Concat(ps) : ps \in SeqsUpTo(Parts, MaxParts)}

\* 8 digits, contiguous or in pairs with an optional space between the pairs
PhoneBodies ==
  {<<"1", "2">> \o s1 \o <<"3", "4">> \o s2 \o <<"5", "6">> \o s3 \o <<"7", "8">> :
     s1 \in {<<>>, <<" ">>}, s2 \in {<<>>, <<" ">>}, s3 \in {<<>>, <<" ">>}}

\* no prefix, +45 and +45 followed by a space
PhonePrefixes == {<<>>, <<"+", "4", "5">>, <<"+", "4", "5", " ">>}

\* 16 digits in four groups of 4, each separator nothing, a space or a hyphen
CardNumbers ==
  {<<"1", "2", "3", "4">> \o s1 \o <<"5", "6", "7", "8">> \o s2
     \o <<"9", "0", "1", "2">> \o s3 \o <<"3", "4", "5", "6">> :
     s1 \in {<<>>, <<" ">>, <<"-">>}, s2 \in {<<>>, <<" ">>, <<"-">>},
     s3 \in {<<>>, <<" ">>, <<"-">>}}

\* what stands before and after a number: nothing, or text set off by a
\* space; before a number also a bare space
BeforeText == {<<>>, <<" ">>, <<"T", "e", "l", " ">>}
AfterText == {<<>>, <<" ", "x">>}

PhoneStrings ==
  {b \o p \o n \o a : b \in BeforeText, p \in PhonePrefixes, n \in PhoneBodies, a \in AfterText}

CardStrings == {b \o n \o a : b \in BeforeText, n \in CardNumbers, a \in AfterText}

\* strings with items of several rules, for the configurations of flags
SampleStrings ==
  {<<"1", "2", "3", "-", "4", "5", "-", "6", "7", "8", "9", " ", "a", "@", "b", ".", "c", "o", "m">>,
   <<"j", "o", "h", "n", ".", "d", "o", "e", "@", "e", "x", "a", "m", "p", "l", "e", ".", "c", "o", "m">>,
   <<"a", "@", "b", ".", "c", "o", "m">>,
   <<"+", "4", "5", " ", "1", "2", " ", "3", "4", " ", "5", "6", " ", "7", "8">>,
   <<"1", "2", "3", "4", "-", "5", "6", "7", "8", "-", "9", "0", "1", "2", "-", "3", "4", "5", "6">>,
   <<"M", "y", " ", "i", "d", " ", "i", "s", " ", "1", "2", "3", "4", "5", "6", "-", "7", "8", "9", "0">>,
   <<"a", "@", "1", "2", "3", "4", "5", "6", "7", "8", ".", "c", "o", "m">>,
   <<"1", "2", "3", "4", "5", "6", "7", "8", "9", "0", "@", "b", ".", "c", "o", "m", " ", "x">>,
   <<"a", "@", "b", ".", "c", "o", "m", " ", "1", "2", "3", "4", "5", "6", "7", "8">>,
   <<"a", "@", "b", ".", "c", "o", "m", "@", "d", ".", "c", "o", "m">>,
   <<"n", "o", " ", "p", "i", "i", " ", "h", "e", "r", "e">>,
   <<"1", "2", " ", "3", "4", " ", "5", "6", " ", "7", "8", "x", "@", "b", ".", "c", "o", "m">>}

\* a configuration object: enabled is left out when en is undefined, the rule
\* keys in off are false, and the other rule keys hold other (left out when
\* other is undefined)
MakeConfig(en, off, other) ==
  [key \in (IF en = Undefined THEN {} ELSE {"enabled"})
           \cup off
           \cup (IF other = Undefined THEN {}
                 ELSE {"cpr", "email", "phone", "creditCard", "ssn"} \ off) |->
     IF key = "enabled" THEN en ELSE IF key \in off THEN Bool(FALSE) ELSE other]

\* what a rule key that is not false may hold: nothing, true, null, 0, '', 'false'
OtherFlagValues ==
  {Undefined, Bool(TRUE), Null, Num(0), Str(<<>>), Str(<<"f", "a", "l", "s", "e">>)}

EnabledValues == {Bool(TRUE), Bool(FALSE), Undefined}

FlagConfigs ==
  {MakeConfig(en, off, other) :
     en \in EnabledValues,
     off \in SUBSET {"cpr", "email", "phone", "creditCard", "ssn"},
     other \in OtherFlagValues}

\* {enabled: true}: every rule at its default
EnabledConfig == MakeConfig(Bool(TRUE), {}, Undefined)

\* the leaves of the input trees
Leaves ==
  {Null, Num(12345678), Bool(TRUE), Str(<<"a", "@", "b", ".", "c", "o", "m">>),
   Str(<<"1", "2", "3", "4", "5", "6", "7", "8">>)}

ObjectKeys == {"user", "__proto__"}

\* the sequences of distinct keys
KeySeqs ==
  {ks \in SeqsUpTo(ObjectKeys, MaxLen) : \A i, j \in 1..Len(ks) : i # j => ks[i] # ks[j]}

ArraysOf(vals) == {TreeArray(items) : items \in SeqsUpTo(vals, MaxLen)}

ObjectsOf(vals) ==
  UNION {{TreeObject(ks, vs) : vs \in [1..Len(ks) -> vals]} : ks \in KeySeqs}

FlatTrees == ArraysOf(Leaves) \cup ObjectsOf(Leaves)

\* {user: {email: 'a@b.com'}, tags: ['x', 'a@b.com']}
ExampleTree ==
  TreeObject(<<"user", "tags">>,
             <<TreeObject(<<"email">>, <<Str(<<"a", "@", "b", ".", "c", "o", "m">>)>>),
               TreeArray(<<Str(<<"x">>), Str(<<"a", "@", "b", ".", "c", "o", "m">>)>>)>>)

NestedTrees ==
  {TreeArray(<<c>>) : c \in FlatTrees}
    \cup {TreeObject(<<k>>, <<c>>) : k \in ObjectKeys, c \in FlatTrees}
    \cup {ExampleTree}

InputTrees == Leaves \cup FlatTrees \cup NestedTrees

\* values that are not JSON data: a function and a Date, alone and inside an
\* array and an object
ForeignLeaves == {Function("toString"), TreeDate(1705312800)}

ForeignTrees ==
  ForeignLeaves
    \cup {TreeArray(<<Str(<<"a", "@", "b", ".", "c", "o", "m">>), f>>) : f \in ForeignLeaves}
    \cup {TreeObject(<<"user", "at">>, <<Str(<<"a", "@", "b", ".", "c", "o", "m">>), f>>) : f \in ForeignLeaves}
    \cup {TreeObject(<<"user">>, <<TreeArray(<<f>>)>>) : f \in ForeignLeaves}

\* the configurations the trees are masked under: the argument left out, the
\* gate off with every rule on, the gate on, and the gate on without the
\* email rule
TreeConfigs ==
  {Undefined, getDefaultMaskingConfig, EnabledConfig, MakeConfig(Bool(TRUE), {"email"}, Bool(TRUE))}

\* the pairs of an input tree and a configuration
Scenarios ==
  ({Str(s) : s \in FreeStrings \cup PhoneStrings \cup CardStrings} \X {EnabledConfig})
    \cup ({Str(s) : s \in SampleStrings} \X FlagConfigs)
    \cup (InputTrees \X TreeConfigs)
    \cup (ForeignTrees \X {getDefaultMaskingConfig, EnabledConfig})


\* ------------------------------------------------------------------------
\* config.js: the configuration read from the environment.  The environment
\* is a function from the names of the variables that are set to their values;
\* names and values are strings, sequences of characters.
\* ------------------------------------------------------------------------

\* the names of the variables that are read
PII_MASKING_ENABLED == <<"P", "I", "I", "_", "M", "A", "S", "K", "I", "N", "G", "_", "E", "N", "A", "B", "L", "E", "D">>
PII_MASK_CPR == <<"P", "I", "I", "_", "M", "A", "S", "K", "_", "C", "P", "R">>
PII_MASK_EMAIL == <<"P", "I", "I", "_", "M", "A", "S", "K", "_", "E", "M", "A", "I", "L">>
PII_MASK_PHONE == <<"P", "I", "I", "_", "M", "A", "S", "K", "_", "P", "H", "O", "N", "E">>
PII_MASK_CREDIT_CARD == <<"P", "I", "I", "_", "M", "A", "S", "K", "_", "C", "R", "E", "D", "I", "T", "_", "C", "A", "R", "D">>
PII_MASK_SSN == <<"P", "I", "I", "_", "M", "A", "S", "K", "_", "S", "S", "N">>
ELASTICSEARCH_INDEX_PATTERN == <<"E", "L", "A", "S", "T", "I", "C", "S", "E", "A", "R", "C", "H", "_", "I", "N", "D", "E", "X", "_", "P", "A", "T", "T", "E", "R", "N">>

\* process.env[name]: a string, or undefined for a variable that is not set
GetEnv(env, name) == IF name \in DOMAIN env THEN Str(env[name]) ELSE Undefined

\* process.env[name] === value
EnvIs(env, name, value) == GetEnv(env, name) = Str(value)

\* process.env[key] = value
SetEnv(env, key, value) ==
  [name \in DOMAIN env \cup {key} |-> IF name = key THEN value ELSE env[name]]

\* the file .env of the working directory: fs.existsSync('.env') and its text
NoFile == [exists |-> FALSE, content |-> <<>>]
File(content) == [exists |-> TRUE, content |-> content]

RECURSIVE TrimStart(_), TrimEnd(_), Join(_, _), LoadLines(_, _, _)

TrimStart(s) == IF s # <<>> /\ Head(s) \in Space THEN TrimStart(Tail(s)) ELSE s
TrimEnd(s) == IF s # <<>> /\ s[Len(s)] \in Space THEN TrimEnd(SubSeq(s, 1, Len(s) - 1)) ELSE s

\* line.trim()
Trim(s) == TrimEnd(TrimStart(s))

\* valueParts.join(sep)
Join(parts, sep) ==
  IF parts = <<>> THEN <<>>
  ELSE IF Len(parts) = 1 THEN parts[1]
  ELSE parts[1] \o <<sep>> \o Join(Tail(parts), sep)

\* the body of the forEach over the lines: a line that is not empty and not
\* a comment sets the variable left of its first '=' to the text right of
\* it, unless the text is empty or the variable already has a value that is
\* not empty
LoadLine(env, line) ==
  LET trimmed == Trim(line)
  IN  IF trimmed # <<>> /\ trimmed[1] # "#"
      THEN LET parts == Split(trimmed, "=")
               key == parts[1]
               value == Join(Tail(parts), "=")
           IN  IF key # <<>> /\ value # <<>> /\ ~Truthy(GetEnv(env, key))
               THEN SetEnv(env, key, value)
               ELSE env
      ELSE env

LoadLines(env, lines, i) ==
  IF i > Len(lines) THEN env ELSE LoadLines(LoadLine(env, lines[i]), lines, i + 1)

\* the first part of loadConfig: process.env after the file is read
loadEnvFile(env, file) ==
  IF file.exists THEN LoadLines(env, Split(file.content, "\n"), 1) ELSE env

\* 'logs-*'
DefaultIndexPattern == Str(<<"l", "o", "g", "s", "-", "*">>)

\* a variant of ParseEnv where the masking is on unless PII_MASKING_ENABLED is 'false'
ParseEnvOnByDefault(env) ==
  [indexPattern |->
     IF Truthy(GetEnv(env, ELASTICSEARCH_INDEX_PATTERN))
     THEN GetEnv(env, ELASTICSEARCH_INDEX_PATTERN)
     ELSE DefaultIndexPattern,
   piiMasking |->
     [key \in {"enabled", "cpr", "email", "phone", "creditCard", "ssn"} |->
        CASE key = "enabled" -> Bool(~EnvIs(env, PII_MASKING_ENABLED, <<"f", "a", "l", "s", "e">>))
          [] key = "cpr" -> Bool(~EnvIs(env, PII_MASK_CPR, <<"f", "a", "l", "s", "e">>))
          [] key = "email" -> Bool(~EnvIs(env, PII_MASK_EMAIL, <<"f", "a", "l", "s", "e">>))
          [] key = "phone" -> Bool(~EnvIs(env, PII_MASK_PHONE, <<"f", "a", "l", "s", "e">>))
          [] key = "creditCard" -> Bool(~EnvIs(env, PII_MASK_CREDIT_CARD, <<"f", "a", "l", "s", "e">>))
          [] key = "ssn" -> Bool(~EnvIs(env, PII_MASK_SSN, <<"f", "a", "l", "s", "e">>))]]

\* the second part of loadConfig: the configuration object made of process.env
ParseEnv(env) ==
  [indexPattern |->
     IF Truthy(GetEnv(env, ELASTICSEARCH_INDEX_PATTERN))
     THEN GetEnv(env, ELASTICSEARCH_INDEX_PATTERN)
     ELSE DefaultIndexPattern,
   piiMasking |->
     [key \in {"enabled", "cpr", "email", "phone", "creditCard", "ssn"} |->
        CASE key = "enabled" -> Bool(EnvIs(env, PII_MASKING_ENABLED, <<"t", "r", "u", "e">>))
          [] key = "cpr" -> Bool(~EnvIs(env, PII_MASK_CPR, <<"f", "a", "l", "s", "e">>))
          [] key = "email" -> Bool(~EnvIs(env, PII_MASK_EMAIL, <<"f", "a", "l", "s", "e">>))
          [] key = "phone" -> Bool(~EnvIs(env, PII_MASK_PHONE, <<"f", "a", "l", "s", "e">>))
          [] key = "creditCard" -> Bool(~EnvIs(env, PII_MASK_CREDIT_CARD, <<"f", "a", "l", "s", "e">>))
          [] key = "ssn" -> Bool(~EnvIs(env, PII_MASK_SSN, <<"f", "a", "l", "s", "e">>))]]

\* loadConfig(): process.env as the call leaves it, and the object returned
loadConfig(env, file) ==
  LET loaded == loadEnvFile(env, file)
  IN  [env |-> loaded, config |-> ParseEnv(loaded)]

getConfig(env, file) == loadConfig(env, file)

\* ------------------------------------------------------------------------
\* index.js: the five operations.  Each takes the reply of Elasticsearch to
\* its one request and completes by returning a value or by throwing.
\* ------------------------------------------------------------------------

\* a reply of the client: the body of the response, or the error it throws
EsOk(body) == [ok |-> TRUE, body |-> body]
EsError(error) == [ok |-> FALSE, error |-> error]

\* an error of the client: ResponseError carries meta, with the status code
\* and the body of the response; a connection error carries no body
ResponseError(message, statusCode, body) ==
  [message |-> message, statusCode |-> statusCode, body |-> body]
ConnectionError(message) ==
  [message |-> message, statusCode |-> Undefined, body |-> Undefined]

\* error.meta?.body || error.message
ErrorDetails(error) == IF Truthy(error.body) THEN error.body ELSE error.message

\* a completion of an async function
Return(h, v) == [threw |-> FALSE, heap |-> h, value |-> v]
Throw(prefix, details) == [threw |-> TRUE, message |-> [prefix |-> prefix, details |-> details]]

\* a request to the client
EsRequest(op, index, size) == [op |-> op, index |-> index, size |-> size]

\* a parameter with a default value: the default stands in for undefined
Default(v, d) == IF v = Undefined THEN d ELSE v

\* hits.map(hit => ({index: hit._index, id: hit._id, score: hit._score, source: hit._source}))
MapHits(hits) ==
  TreeArray([i \in 1..Len(hits) |->
               TreeObject(<<"index", "id", "score", "source">>,
                          <<hits[i]._index, hits[i]._id, hits[i]._score, hits[i]._source>>)])

\* the result object of both searches
SearchResult(body) == TreeObject(<<"total", "hits">>, <<body.total, MapHits(body.hits)>>)

\* maskPII(result, config.piiMasking) on a result just built
MaskResult(result, cfg) ==
  LET r == Alloc(<<>>, result)
      m == maskPII(r.heap, r.val, cfg.piiMasking)
  IN  Return(m.heap, m.val)

searchByCorrelationIdRequest(cfg, indexPattern, size) ==
  EsRequest("search", IF Truthy(indexPattern) THEN indexPattern ELSE cfg.indexPattern,
            Default(size, Num(100)))

searchByCorrelationId(cfg, reply) ==
  IF reply.ok THEN MaskResult(SearchResult(reply.body), cfg)
  ELSE Throw("Elasticsearch search failed: ", ErrorDetails(reply.error))

\* a variant of getDocumentRequest that calls esClient.delete
getDocumentRequestDelete(index) == EsRequest("delete", index, Undefined)

getDocumentRequest(index) == EsRequest("get", index, Undefined)

\* {index: response._index, id: response._id, found: response.found, source: response._source}
DocumentResult(body) ==
  TreeObject(<<"index", "id", "found", "source">>,
             <<body._index, body._id, body.found, body._source>>)

\* a variant of getDocument that treats the status 404 as any other error
getDocumentThrowsNotFound(cfg, reply) ==
  IF reply.ok THEN MaskResult(DocumentResult(reply.body), cfg)
  ELSE Throw("Failed to get document: ", reply.error.message)

getDocument(cfg, reply) ==
  IF reply.ok THEN MaskResult(DocumentResult(reply.body), cfg)
  ELSE IF reply.error.statusCode = Num(404)
  THEN LET r == Alloc(<<>>, TreeObject(<<"found", "error">>,
                                       <<Bool(FALSE), Str(<<"D", "o", "c", "u", "m", "e", "n", "t", " ", "n", "o", "t", " ", "f", "o", "u", "n", "d">>)>>))
       IN  Return(r.heap, r.val)
  ELSE Throw("Failed to get document: ", reply.error.message)

customSearchRequest(cfg, indexPattern, size) ==
  EsRequest("search", IF Truthy(indexPattern) THEN indexPattern ELSE cfg.indexPattern,
            Default(size, Num(100)))

customSearch(cfg, reply) ==
  IF reply.ok THEN MaskResult(SearchResult(reply.body), cfg)
  ELSE Throw("Elasticsearch search failed: ", ErrorDetails(reply.error))

\* params.index is set only for a pattern that is truthy and not '*'
listIndicesRequest(pattern) ==
  LET p == Default(pattern, Str(<<"*">>))
  IN  EsRequest("cat.indices", IF Truthy(p) /\ p # Str(<<"*">>) THEN p ELSE Undefined, Undefined)

\* response.map(index => ({name: index.index, health: index.health, ...}))
IndicesResult(body) ==
  TreeArray([i \in 1..Len(body) |->
               TreeObject(<<"name", "health", "status", "docsCount", "storeSize">>,
                          <<body[i].index, body[i].health, body[i].status,
                            body[i].docsCount, body[i].storeSize>>)])

\* the rows are returned as built
listIndices(cfg, reply) ==
  IF reply.ok
  THEN LET r == Alloc(<<>>, IndicesResult(reply.body)) IN Return(r.heap, r.val)
  ELSE Throw("Failed to list indices: ", ErrorDetails(reply.error))

getIndexMappingRequest(index) == EsRequest("indices.getMapping", index, Undefined)

\* the response is returned as received
getIndexMapping(cfg, reply) ==
  IF reply.ok
  THEN LET r == Alloc(<<>>, reply.body) IN Return(r.heap, r.val)
  ELSE Throw("Failed to get index mapping: ", reply.error.message)

\* ------------------------------------------------------------------------
\* index.js: the handler of CallToolRequestSchema
\* ------------------------------------------------------------------------

\* the five tools
ToolNames ==
  {"search_by_correlation_id", "get_document", "custom_search", "list_indices",
   "get_index_mapping"}

\* the property of args that the case of a tool reads first
FirstArgument(name) ==
  CASE name = "search_by_correlation_id" -> "correlation_id"
    [] name = "get_document" -> "index"
    [] name = "custom_search" -> "index_pattern"
    [] name = "list_indices" -> "pattern"
    [] name = "get_index_mapping" -> "index"

\* the request the tool of that name sends to Elasticsearch; no request for
\* a name the switch does not know, nor when the call has no arguments
\* (reading a property of undefined throws before the operation is called)
ToolRequests(cfg, name, args) ==
  IF args = Undefined THEN {}
  ELSE CASE name = "search_by_correlation_id" ->
              {searchByCorrelationIdRequest(cfg, GetProp(args, "index_pattern"),
                                            GetProp(args, "size"))}
         [] name = "get_document" -> {getDocumentRequest(GetProp(args, "index"))}
         [] name = "custom_search" ->
              {customSearchRequest(cfg, GetProp(args, "index_pattern"), GetProp(args, "size"))}
         [] name = "list_indices" -> {listIndicesRequest(GetProp(args, "pattern"))}
         [] name = "get_index_mapping" -> {getIndexMappingRequest(GetProp(args, "index"))}
         [] OTHER -> {}

\* the switch on the name of the tool
ToolCompletion(cfg, name, args, reply) ==
  IF name \in ToolNames /\ args = Undefined
  THEN Throw("Cannot read properties of undefined: ", FirstArgument(name))
  ELSE CASE name = "search_by_correlation_id" -> searchByCorrelationId(cfg, reply)
         [] name = "get_document" -> getDocument(cfg, reply)
         [] name = "custom_search" -> customSearch(cfg, reply)
         [] name = "list_indices" -> listIndices(cfg, reply)
         [] name = "get_index_mapping" -> getIndexMapping(cfg, reply)
         [] OTHER -> Throw("Unknown tool: ", name)

\* the response of the handler: the result as JSON text, or the message of
\* the error caught
CallTool(cfg, name, args, reply) ==
  LET c == ToolCompletion(cfg, name, args, reply)
  IN  IF c.threw
      THEN [content |-> <<[type |-> "text", text |-> [error |-> c.message]]>>, isError |-> TRUE]
      ELSE [content |-> <<[type |-> "text", text |-> [json |-> JSONstringify(c.heap, c.value)]]>>]

\* ------------------------------------------------------------------------
\* The environments, requests and replies that are explored
\* ------------------------------------------------------------------------

\* the most hits in the reply to a search
MaxHits == 1

\* the mark of a variable that is not set
Unset == <<"(unset)">>

\* the environment where the variables of names have the values of values,
\* those marked Unset left out
EnvOf(names, values) ==
  [name \in {names[i] : i \in {j \in 1..Len(names) : values[j] # Unset}} |->
     values[CHOOSE i \in 1..Len(names) : names[i] = name]]

\* the environments the server is started in
Envs ==
  {EnvOf(<<PII_MASKING_ENABLED, PII_MASK_EMAIL>>, <<enabled, email>>) :
     enabled \in {Unset, <<"t", "r", "u", "e">>, <<"f", "a", "l", "s", "e">>},
     email \in {Unset, <<"f", "a", "l", "s", "e">>}}

\* the .env files the server is started with: none, or one that names the
\* index pattern and turns the masking on
ServerFiles ==
  {NoFile,
   File(<<"E", "L", "A", "S", "T", "I", "C", "S", "E", "A", "R", "C", "H", "_", "I", "N", "D", "E", "X", "_", "P", "A", "T", "T", "E", "R", "N", "=", "a", "p", "p", "-", "*", "\n", "P", "I", "I", "_", "M", "A", "S", "K", "I", "N", "G", "_", "E", "N", "A", "B", "L", "E", "D", "=", "t", "r", "u", "e">>)}

\* the most lines in a .env file
MaxLines == 2

\* the environments getConfig is called in: PII_MASKING_ENABLED with values
\* that are and are not exactly 'true', each rule's variable unset, 'false'
\* or (for cpr and email) a value that is not exactly 'false'
ConfigEnvs ==
  {EnvOf(<<PII_MASKING_ENABLED, PII_MASK_CPR, PII_MASK_EMAIL, PII_MASK_PHONE,
           PII_MASK_CREDIT_CARD, PII_MASK_SSN>>,
         <<enabled, cpr, email, phone, creditCard, ssn>>) :
     enabled \in {Unset, <<>>, <<"t", "r", "u", "e">>, <<"T", "R", "U", "E">>, <<"f", "a", "l", "s", "e">>, <<"1">>},
     cpr \in {Unset, <<"f", "a", "l", "s", "e">>, <<"F", "A", "L", "S", "E">>},
     email \in {Unset, <<"f", "a", "l", "s", "e">>, <<"t", "r", "u", "e">>},
     phone \in {Unset, <<"f", "a", "l", "s", "e">>},
     creditCard \in {Unset, <<"f", "a", "l", "s", "e">>},
     ssn \in {Unset, <<"f", "a", "l", "s", "e">>}}

\* lines of a .env file: settings, a setting with spaces around it, one with
\* a remark after the value, one with no value, a comment
EnvLines ==
  {<<"P", "I", "I", "_", "M", "A", "S", "K", "I", "N", "G", "_", "E", "N", "A", "B", "L", "E", "D", "=", "t", "r", "u", "e">>,
   <<" ", "P", "I", "I", "_", "M", "A", "S", "K", "I", "N", "G", "_", "E", "N", "A", "B", "L", "E", "D", "=", "f", "a", "l", "s", "e", "\r">>,
   <<"P", "I", "I", "_", "M", "A", "S", "K", "I", "N", "G", "_", "E", "N", "A", "B", "L", "E", "D", "=", "t", "r", "u", "e", " ", "#", " ", "o", "n">>,
   <<"P", "I", "I", "_", "M", "A", "S", "K", "_", "S", "S", "N", "=", "f", "a", "l", "s", "e">>,
   <<"P", "I", "I", "_", "M", "A", "S", "K", "_", "P", "H", "O", "N", "E", "=">>,
   <<"#", " ", "P", "I", "I", "_", "M", "A", "S", "K", "_", "C", "P", "R", "=", "f", "a", "l", "s", "e">>}

\* the texts of .env files: lines joined by line feeds
EnvFiles == {NoFile} \cup {File(Join(lines, "\n")) : lines \in SeqsUpTo(EnvLines, MaxLines)}

\* documents of an index: log entries with personal data in their text
Sources ==
  {TreeObject(<<"message", "count">>, <<Str(<<"l", "o", "g", "i", "n", " ", "a", "@", "b", ".", "c", "o", "m">>), Num(12345678)>>),
   TreeObject(<<"phone", "tags">>, <<Str(<<"1", "2", "3", "4", "5", "6", "7", "8">>), TreeArray(<<Str(<<"x">>)>>)>>)}

Hits ==
  {[_index |-> Str(<<"l", "o", "g", "s", "-", "2", "0", "2", "4", "0", "1", "1", "5">>), _id |-> Str(<<"1">>), _score |-> Num(1), _source |-> s] :
     s \in Sources}

ResponseErrors ==
  {ResponseError(Str(<<"i", "n", "d", "e", "x", "_", "n", "o", "t", "_", "f", "o", "u", "n", "d", "_", "e", "x", "c", "e", "p", "t", "i", "o", "n">>), Num(404),
                 TreeObject(<<"error">>, <<Str(<<"n", "o", " ", "s", "u", "c", "h", " ", "i", "n", "d", "e", "x", " ", "[", "a", "@", "b", ".", "c", "o", "m", "]">>)>>)),
   ResponseError(Str(<<"s", "e", "a", "r", "c", "h", "_", "p", "h", "a", "s", "e", "_", "e", "x", "e", "c", "u", "t", "i", "o", "n", "_", "e", "x", "c", "e", "p", "t", "i", "o", "n">>), Num(500),
                 TreeObject(<<"error">>, <<Str(<<"f", "a", "i", "l", "e", "d", " ", "t", "o", " ", "p", "a", "r", "s", "e", " ", "[", "1", "2", "3", "4", "5", "6", "7", "8", "]">>)>>)),
   ConnectionError(Str(<<"c", "o", "n", "n", "e", "c", "t", " ", "E", "C", "O", "N", "N", "R", "E", "F", "U", "S", "E", "D">>))}

ErrorReplies == {EsError(e) : e \in ResponseErrors}

SearchReplies ==
  {EsOk([total |-> Num(Len(hs)), hits |-> hs]) : hs \in SeqsUpTo(Hits, MaxHits)}
    \cup ErrorReplies

GetReplies ==
  {EsOk([_index |-> h._index, _id |-> h._id, found |-> Bool(TRUE), _source |-> h._source]) :
     h \in Hits}
    \cup ErrorReplies

\* rows of GET _cat/indices?format=json
CatRows ==
  {[index |-> Str(<<"l", "o", "g", "s", "-", "2", "0", "2", "4", "0", "1", "1", "5">>), health |-> Str(<<"g", "r", "e", "e", "n">>), status |-> Str(<<"o", "p", "e", "n">>),
    docsCount |-> Str(<<"4", "2">>), storeSize |-> Str(<<"1", "k", "b">>)],
   [index |-> Str(<<"a", "u", "d", "i", "t">>), health |-> Str(<<"y", "e", "l", "l", "o", "w">>), status |-> Str(<<"o", "p", "e", "n">>),
    docsCount |-> Str(<<"1", "2", "3", "4", "5", "6", "7", "8">>), storeSize |-> Str(<<"2", "g", "b">>)]}

CatReplies == {EsOk(rows) : rows \in SeqsUpTo(CatRows, MaxHits)} \cup ErrorReplies

\* mappings of an index, by index name; _meta is free-form
MappingReplies ==
  {EsOk(TreeObject(<<"audit">>,
          <<TreeObject(<<"mappings">>,
              <<TreeObject(<<"_meta", "properties">>,
                  <<TreeObject(<<"owner">>, <<Str(<<"a", "@", "b", ".", "c", "o", "m">>)>>),
                    TreeObject(<<"message">>,
                               <<TreeObject(<<"type">>, <<Str(<<"t", "e", "x", "t">>)>>)>>)>>)>>)>>)),
   EsOk(TreeObject(<<"logs">>,
          <<TreeObject(<<"mappings">>,
              <<TreeObject(<<"properties">>,
                  <<TreeObject(<<"count">>,
                               <<TreeObject(<<"type">>, <<Str(<<"l", "o", "n", "g">>)>>)>>)>>)>>)>>))}
    \cup ErrorReplies

\* the arguments of a tool call: an object with some of the properties set
ArgsOf(r) == [name \in {n \in DOMAIN r : r[n] # Undefined} |-> r[name]]

SearchArgs ==
  {ArgsOf(r) : r \in [correlation_id : {Str(<<"c", "-", "1">>)},
                      index_pattern : {Undefined},
                      size : {Undefined}]
                       \cup [correlation_id : {Str(<<"c", "-", "1">>)},
                             index_pattern : {Str(<<"a", "p", "p", "-", "*">>)},
                             size : {Num(10)}]}

DocumentArgs ==
  {ArgsOf(r) : r \in [index : {Str(<<"l", "o", "g", "s", "-", "2", "0", "2", "4", "0", "1", "1", "5">>)},
                      document_id : {Str(<<"1">>)}]}

CustomArgs ==
  {ArgsOf(r) : r \in [query_dsl : {TreeObject(<<"query">>, <<TreeObject(<<"match_all">>,
                                     <<TreeObject(<<>>, <<>>)>>)>>)},
                      index_pattern : {Undefined},
                      size : {Undefined}]}

ListArgs ==
  {ArgsOf(r) : r \in [pattern : {Undefined, Str(<<"*">>), Str(<<"l", "o", "g", "s", "-", "*">>)}]}

MappingArgs == {ArgsOf(r) : r \in [index : {Str(<<"a", "u", "d", "i", "t">>)}]}

\* names the switch of the handler does not know
UnknownTools == {"delete_index", "index_document", ""}

\* ------------------------------------------------------------------------
\* State
\* ------------------------------------------------------------------------

VARIABLES
  heap,      \* the cells of the containers a caller of maskPII holds, by reference
  input,     \* the value maskPII is first called with
  config,    \* the configuration maskPII is called with (Undefined: left out)
  outputs,   \* the values the calls of maskPII returned, in order
  env,       \* process.env
  envFile,   \* the file .env of the working directory
  pc,        \* where the process is: "load" and "loaded" around getConfig(), then in
             \* main() "start", "checking", "running" or "exited"
  checked,   \* the reply of Elasticsearch to the search of main(), once it has come
  connected, \* server.connect(transport) has been called
  exitCode,  \* the codes process.exit was called with, in order
  esCalls,   \* the requests the server has made of the Elasticsearch client
  pending,   \* the tool call whose request to Elasticsearch awaits its reply
  call,      \* the tool call just answered: its name, arguments and the reply of Elasticsearch
  response   \* the response to it, on its way to the client

vars ==
  <<heap, input, config, outputs, env, envFile, pc, checked, connected, exitCode, esCalls, pending,
    call, response>>

maskVars == <<heap, input, config, outputs>>
serverVars == <<env, envFile, pc, checked, connected, exitCode, esCalls, pending, call, response>>

\* const config = getConfig()
Config == getConfig(env, envFile).config

\* no caller of maskPII other than the server
NoCaller ==
  /\ heap = <<>>
  /\ input = Undefined
  /\ config = Undefined
  /\ outputs = <<>>

\* no server: the process never starts main()
NoServer ==
  /\ env = EnvOf(<<>>, <<>>)
  /\ envFile = NoFile
  /\ pc = "exited"
  /\ checked = <<>>
  /\ connected = FALSE
  /\ exitCode = <<>>
  /\ esCalls = {}
  /\ pending = <<>>
  /\ call = <<>>
  /\ response = <<>>

\* ------------------------------------------------------------------------
\* maskPII called as a library function
\* ------------------------------------------------------------------------

\* a caller holds a value and a configuration
InitMask ==
  /\ \E sc \in Scenarios :
       LET r == Alloc(<<>>, sc[1])
       IN  /\ heap = r.heap
           /\ input = r.val
           /\ config = sc[2]
           /\ outputs = <<>>
  /\ NoServer

\* the caller calls maskPII, the first time on its value and then on the
\* result of the call before
CallMaskPII ==
  /\ Len(outputs) < MaxCalls
  /\ LET arg == IF outputs = <<>> THEN input ELSE outputs[Len(outputs)]
         r == maskPII(heap, arg, config)
     IN  /\ heap' = r.heap
         /\ outputs' = Append(outputs, r.val)
  /\ UNCHANGED <<input, config>>
  /\ UNCHANGED serverVars

NextMask == CallMaskPII

MaskSpec == InitMask /\ [][NextMask]_vars

\* ------------------------------------------------------------------------
\* getConfig called on an environment and a .env file
\* ------------------------------------------------------------------------

\* the process is started: nothing is read yet
InitConfig ==
  /\ NoCaller
  /\ env \in ConfigEnvs
  /\ envFile \in EnvFiles
  /\ pc = "load"
  /\ checked = <<>>
  /\ connected = FALSE
  /\ exitCode = <<>>
  /\ esCalls = {}
  /\ pending = <<>>
  /\ call = <<>>
  /\ response = <<>>

\* getConfig(): the file is read into process.env and the configuration is
\* made; config holds its piiMasking, the configuration maskPII is called with
GetConfig ==
  /\ pc = "load"
  /\ pc' = "loaded"
  /\ env' = getConfig(env, envFile).env
  /\ config' = getConfig(env, envFile).config.piiMasking
  /\ UNCHANGED <<heap, input, outputs>>
  /\ UNCHANGED <<envFile, checked, connected, exitCode, esCalls, pending, call, response>>

NextConfig == GetConfig

ConfigSpec == InitConfig /\ [][NextConfig]_vars

\* ------------------------------------------------------------------------
\* The server
\* ------------------------------------------------------------------------

\* the module is loaded: the configuration is read, the handlers are set,
\* main() is about to run
Init ==
  /\ NoCaller
  /\ \E launch \in Envs, file \in ServerFiles :
       /\ env = getConfig(launch, file).env
       /\ envFile = file
  /\ pc = "start"
  /\ checked = <<>>
  /\ connected = FALSE
  /\ exitCode = <<>>
  /\ esCalls = {}
  /\ pending = <<>>
  /\ call = <<>>
  /\ response = <<>>

\* main(): the search that tests the connection is sent
MainCheck ==
  /\ pc = "start"
  /\ pc' = "checking"
  /\ esCalls' = esCalls \cup {EsRequest("search", Config.indexPattern, Num(0))}
  /\ UNCHANGED <<env, envFile, checked, connected, exitCode, pending, call, response>>
  /\ UNCHANGED maskVars

\* the replies of Elasticsearch to the search of main(): no hits are asked for
CheckReplies == {EsOk([total |-> Num(0), hits |-> <<>>])} \cup ErrorReplies

\* the search succeeded: the transport is connected
CheckSucceeds ==
  /\ pc = "checking"
  /\ \E reply \in CheckReplies :
       /\ reply.ok
       /\ checked' = <<reply>>
  /\ pc' = "running"
  /\ connected' = TRUE
  /\ UNCHANGED <<env, envFile, exitCode, esCalls, pending, call, response>>
  /\ UNCHANGED maskVars

\* a variant of CheckFails that reports the error and goes on to connect
CheckFailsAndConnects ==
  /\ pc = "checking"
  /\ \E reply \in CheckReplies :
       /\ ~reply.ok
       /\ checked' = <<reply>>
  /\ pc' = "running"
  /\ connected' = TRUE
  /\ UNCHANGED <<env, envFile, exitCode, esCalls, pending, call, response>>
  /\ UNCHANGED maskVars

\* the search threw: process.exit(1)
CheckFails ==
  /\ pc = "checking"
  /\ \E reply \in CheckReplies :
       /\ ~reply.ok
       /\ checked' = <<reply>>
  /\ pc' = "exited"
  /\ exitCode' = Append(exitCode, 1)
  /\ UNCHANGED <<env, envFile, connected, esCalls, pending, call, response>>
  /\ UNCHANGED maskVars

\* a tool call reaches the handler once the transport is connected; the
\* calls are followed one at a time
Serving == pc = "running" /\ connected /\ pending = <<>>

\* the handler of a tool call, up to the await of the reply of Elasticsearch
Receive(name, args) ==
  /\ pending' = <<[name |-> name, args |-> args]>>
  /\ esCalls' = esCalls \cup ToolRequests(Config, name, args)
  /\ call' = <<>>
  /\ response' = <<>>
  /\ UNCHANGED <<env, envFile, checked, pc, connected, exitCode>>
  /\ UNCHANGED maskVars

\* the handler from the reply of Elasticsearch on, to the response
Answer(reply) ==
  /\ pending' = <<>>
  /\ call' = <<[name |-> pending[1].name, args |-> pending[1].args, reply |-> reply]>>
  /\ response' = <<CallTool(Config, pending[1].name, pending[1].args, reply)>>
  /\ UNCHANGED <<env, envFile, checked, pc, connected, exitCode, esCalls>>
  /\ UNCHANGED maskVars

\* the tool of that name awaits its reply
Awaiting(name) == pending # <<>> /\ pending[1].name = name

SearchByCorrelationIdTool ==
  /\ Serving
  /\ \E args \in SearchArgs : Receive("search_by_correlation_id", args)

SearchByCorrelationIdReply ==
  /\ Awaiting("search_by_correlation_id")
  /\ \E reply \in SearchReplies : Answer(reply)

GetDocumentTool ==
  /\ Serving
  /\ \E args \in DocumentArgs : Receive("get_document", args)

GetDocumentReply ==
  /\ Awaiting("get_document")
  /\ \E reply \in GetReplies : Answer(reply)

CustomSearchTool ==
  /\ Serving
  /\ \E args \in CustomArgs : Receive("custom_search", args)

CustomSearchReply ==
  /\ Awaiting("custom_search")
  /\ \E reply \in SearchReplies : Answer(reply)

ListIndicesTool ==
  /\ Serving
  /\ \E args \in ListArgs : Receive("list_indices", args)

ListIndicesReply ==
  /\ Awaiting("list_indices")
  /\ \E reply \in CatReplies : Answer(reply)

GetIndexMappingTool ==
  /\ Serving
  /\ \E args \in MappingArgs : Receive("get_index_mapping", args)

GetIndexMappingReply ==
  /\ Awaiting("get_index_mapping")
  /\ \E reply \in MappingReplies : Answer(reply)

\* a name the switch does not know: no request is made, the error is the response
UnknownTool ==
  /\ Serving
  /\ \E name \in UnknownTools, args \in MappingArgs :
       /\ call' = <<[name |-> name, args |-> args, reply |-> EsOk(Undefined)]>>
       /\ response' = <<CallTool(Config, name, args, EsOk(Undefined))>>
  /\ UNCHANGED <<env, envFile, checked, pc, connected, exitCode, esCalls, pending>>
  /\ UNCHANGED maskVars

\* no reply: the call made no request
NoReply == [ok |-> FALSE]

\* a call without arguments (request.params.arguments is optional): the
\* case of the tool throws where it reads args, no request is made, the
\* error is the response
NoArguments ==
  /\ Serving
  /\ \E name \in ToolNames \cup UnknownTools :
       /\ call' = <<[name |-> name, args |-> Undefined, reply |-> NoReply]>>
       /\ response' = <<CallTool(Config, name, Undefined, NoReply)>>
  /\ UNCHANGED <<env, envFile, checked, pc, connected, exitCode, esCalls, pending>>
  /\ UNCHANGED maskVars

Next ==
  \/ MainCheck
  \/ CheckSucceeds
  \/ CheckFails
  \/ SearchByCorrelationIdTool
  \/ SearchByCorrelationIdReply
  \/ GetDocumentTool
  \/ GetDocumentReply
  \/ CustomSearchTool
  \/ CustomSearchReply
  \/ ListIndicesTool
  \/ ListIndicesReply
  \/ GetIndexMappingTool
  \/ GetIndexMappingReply
  \/ UnknownTool
  \/ NoArguments

Spec == Init /\ [][Next]_vars

\* ------------------------------------------------------------------------
\* Properties of maskPII (under MaskSpec)
\* ------------------------------------------------------------------------

RECURSIVE Content(_, _)
\* a value with the containers it refers to, by value: every own property of
\* every object, in order
Content(h, v) ==
  IF v.t # "ref" THEN v
  ELSE IF h[v.a].t = "array"
  THEN TreeArray([i \in 1..Len(h[v.a].items) |-> Content(h, h[v.a].items[i])])
  ELSE TreeObject(h[v.a].keys, [i \in 1..Len(h[v.a].vals) |-> Content(h, h[v.a].vals[i])])

\* maskPII has returned
Called == Len(outputs) >= 1

\* the configuration is left out
ConfigOmitted == config = Undefined

\* config.enabled is the boolean false
GateFalse == ~ConfigOmitted /\ GetProp(config, "enabled") = Bool(FALSE)

\* config.enabled is the boolean true
GateTrue == ~ConfigOmitted /\ GetProp(config, "enabled") = Bool(TRUE)

\* the flag of a rule is not the boolean false
RuleOn(key) == GetProp(config, key) # Bool(FALSE)

\* C1: with enabled false, whatever the flags of the rules, or with the
\* configuration left out, the value maskPII returns has the structure and
\* the content of the value it was given.
C1_IdentityWhenDisabled ==
  (Called /\ (GateFalse \/ ConfigOmitted)) =>
    Content(heap, outputs[1]) = Content(heap, input)

\* C1, its case: maskPII has returned a container holding an email address
\* under a configuration with enabled false and the email rule on
C1_Witness ==
  /\ Called
  /\ GateFalse
  /\ GetProp(config, "email") = Bool(TRUE)
  /\ Content(heap, input) = TreeArray(<<Str(<<"a", "@", "b", ".", "c", "o", "m">>)>>)

RECURSIVE SameShape(_, _)
\* two trees have the same variant at every node, arrays of the same length,
\* objects of the same keys in the same order, and equal leaves but for strings
SameShape(x, y) ==
  /\ x.t = y.t
  /\ CASE x.t = "array" ->
            /\ Len(x.items) = Len(y.items)
            /\ \A i \in 1..Len(x.items) : SameShape(x.items[i], y.items[i])
       [] x.t = "object" ->
            /\ x.keys = y.keys
            /\ \A i \in 1..Len(x.vals) : SameShape(x.vals[i], y.vals[i])
       [] x.t = "string" -> TRUE
       [] OTHER -> x = y

\* C2: with enabled true, the value returned has the shape of the value
\* given: the same variant at every node, every array of the same length,
\* every object with the same keys in the same order, every number, boolean
\* and null equal; only strings may differ.
C2_ShapePreserved ==
  (Called /\ GateTrue) => SameShape(Content(heap, input), Content(heap, outputs[1]))

\* maskPII has returned twice, the second time from the result of the first
CalledTwice == Len(outputs) >= 2

\* C3: with enabled true, under any flags of the rules, masking the result
\* of maskPII again gives that result.
C3_Idempotent ==
  (CalledTwice /\ GateTrue) => Content(heap, outputs[2]) = Content(heap, outputs[1])

\* the input is this string, is masked with every rule on, and the call has returned
MaskedString(s) == Called /\ config = EnabledConfig /\ input = Str(s)

\* C4: with the phone rule on, a whole-word phone number (8 digits, contiguous
\* or in pairs with an optional space between the pairs, with or without a
\* prefix +45 or +45 and a space) is replaced as a whole by ** ** ** **,
\* at the start of the string or after a space too, and the text around it
\* is left as it is.
C4_PhoneMasked ==
  \A b \in BeforeText, p \in PhonePrefixes, n \in PhoneBodies, a \in AfterText :
    MaskedString(b \o p \o n \o a) => outputs[1] = Str(b \o PhoneMask \o a)

\* C5: with every rule on, a whole-word number of four groups of 4 digits,
\* each separator nothing, a space or a hyphen, is replaced by
\* **** **** **** ****, and the text around it is left as it is.
C5_CreditCardMasked ==
  \A b \in BeforeText, n \in CardNumbers, a \in AfterText :
    MaskedString(b \o n \o a) => outputs[1] = Str(b \o CreditCardMask \o a)

\* the string after the rule of that key, if its flag is not false
RuleStep(key, s) == IF RuleOn(key) THEN Replace(s, PII_PATTERNS[key]) ELSE s

\* the smaller of two numbers
Min(a, b) == IF a < b THEN a ELSE b

RECURSIVE EmailMasked(_, _)
\* the string from position i on, where every address the email pattern
\* matches, local@domain, is written as the first min(2, length(local))
\* characters of local, ***@ and domain, and every other character as it is
EmailMasked(s, i) ==
  IF i > Len(s) THEN <<>>
  ELSE LET e == MatchHere(EmailPattern, s, i)
       IN  IF e = 0 THEN <<s[i]>> \o EmailMasked(s, i + 1)
           ELSE LET at == CHOOSE k \in i..(e - 1) : s[k] = "@"
                    local == SubSeq(s, i, at - 1)
                    domain == SubSeq(s, at + 1, e - 1)
                IN  SubSeq(local, 1, Min(2, Len(local))) \o <<"*", "*", "*", "@">>
                      \o domain \o EmailMasked(s, e)

\* the input is a string masked with enabled true and the email rule on,
\* and the call has returned
EmailRuleRan == Called /\ GateTrue /\ RuleOn("email") /\ IsString(input)

\* C6: with enabled true and the email rule on, the email rule replaces every
\* address it matches, local@domain, by the first min(2, length(local))
\* characters of local, ***@ and the domain unchanged, and leaves the rest of
\* the string as it is: the result of maskPII is that string, with the cpr
\* rule applied before it and the phone, creditCard and ssn rules after it
\* where their flags are on.  john.doe<<"e", "x", "a", "m", "p", "l", "e", ".", "c", "o", "m", " ", "b", "e", "c", "o", "m", "e", "s", " ", "j", "o", "*", "*", "*">>example.com
\* and a<<"b", ".", "c", "o", "m", " ", "b", "e", "c", "o", "m", "e", "s", " ", "a", "*", "*", "*">>b.com.
C6_EmailPartialMask ==
  /\ EmailRuleRan =>
       outputs[1] =
         Str(RuleStep("ssn", RuleStep("creditCard", RuleStep("phone",
               EmailMasked(RuleStep("cpr", input.s), 1)))))
  /\ (EmailRuleRan /\ input = Str(<<"j", "o", "h", "n", ".", "d", "o", "e", "@", "e", "x", "a", "m", "p", "l", "e", ".", "c", "o", "m">>)) =>
       outputs[1] = Str(<<"j", "o", "*", "*", "*", "@", "e", "x", "a", "m", "p", "l", "e", ".", "c", "o", "m">>)
  /\ (EmailRuleRan /\ input = Str(<<"a", "@", "b", ".", "c", "o", "m">>)) => outputs[1] = Str(<<"a", "*", "*", "*", "@", "b", ".", "c", "o", "m">>)

\* C6, its case: an address with a local part of one character, after other
\* text, was masked under a configuration with only the email rule on
C6_Witness ==
  /\ EmailRuleRan
  /\ \A key \in {"cpr", "phone", "creditCard", "ssn"} : ~RuleOn(key)
  /\ input = Str(<<"a", "@", "b", ".", "c", "o", "m", " ", "1", "2", "3", "4", "5", "6", "7", "8">>)
  /\ outputs[1] = Str(<<"a", "*", "*", "*", "@", "b", ".", "c", "o", "m", " ", "1", "2", "3", "4", "5", "6", "7", "8">>)

\* C7: with enabled true, the masked form of a string is the result of the
\* rules whose flag is not the boolean false, applied in the order cpr,
\* email, phone, creditCard, ssn; a flag that is absent, true, null, 0, '' or
\* 'false' leaves its rule on, and a rule that is off does not turn off the
\* others: with ssn false, 123-45-6789 stays while the address after it is masked.
C7_PerRuleFlags ==
  /\ (Called /\ GateTrue /\ IsString(input)) =>
       outputs[1] =
         Str(RuleStep("ssn", RuleStep("creditCard", RuleStep("phone",
               RuleStep("email", RuleStep("cpr", input.s))))))
  /\ (Called /\ GateTrue /\ input = Str(<<"1", "2", "3", "-", "4", "5", "-", "6", "7", "8", "9", " ", "a", "@", "b", ".", "c", "o", "m">>)
        /\ ~RuleOn("ssn") /\ RuleOn("email")) =>
       outputs[1] = Str(<<"1", "2", "3", "-", "4", "5", "-", "6", "7", "8", "9", " ", "a", "*", "*", "*", "@", "b", ".", "c", "o", "m">>)

\* C7, its case: ssn is false, the flags of the other rules are null, and a
\* string with an SSN and an address was masked
C7_Witness ==
  /\ Called
  /\ GateTrue
  /\ GetProp(config, "ssn") = Bool(FALSE)
  /\ \A key \in {"cpr", "email", "phone", "creditCard"} : GetProp(config, key) = Null
  /\ input = Str(<<"1", "2", "3", "-", "4", "5", "-", "6", "7", "8", "9", " ", "a", "@", "b", ".", "c", "o", "m">>)
  /\ outputs[1] = Str(<<"1", "2", "3", "-", "4", "5", "-", "6", "7", "8", "9", " ", "a", "*", "*", "*", "@", "b", ".", "c", "o", "m">>)

RECURSIVE Reachable(_, _)
\* the references of the containers a value reaches
Reachable(h, v) ==
  IF v.t # "ref" THEN {}
  ELSE {v.a}
         \cup (IF h[v.a].t = "array"
               THEN UNION {Reachable(h, h[v.a].items[i]) : i \in 1..Len(h[v.a].items)}
               ELSE UNION {Reachable(h, h[v.a].vals[i]) : i \in 1..Len(h[v.a].vals)}
                      \cup Reachable(h, h[v.a].proto))

\* C8: a call of maskPII changes no container that existed before it, nor
\* the value and the configuration of the caller; with enabled true, every
\* container of the result is one the call has built.
C8_NoMutation ==
  [][/\ \A a \in 1..Len(heap) : heap'[a] = heap[a]
     /\ input' = input
     /\ config' = config
     /\ (GateTrue /\ Len(outputs') > Len(outputs)) =>
          \A a \in Reachable(heap', outputs'[Len(outputs')]) : a > Len(heap)]_vars

\* C8, its case: an array in an object was masked with enabled true, and the
\* caller's value is as it was
C8_Witness ==
  /\ Called
  /\ GateTrue
  /\ Content(heap, input) = TreeObject(<<"user">>, <<TreeArray(<<Str(<<"a", "@", "b", ".", "c", "o", "m">>)>>)>>)
  /\ Content(heap, outputs[1]) = TreeObject(<<"user">>, <<TreeArray(<<Str(<<"a", "*", "*", "*", "@", "b", ".", "c", "o", "m">>)>>)>>)

\* ------------------------------------------------------------------------
\* Values that are not JSON data (under MaskSpec)
\* ------------------------------------------------------------------------

RECURSIVE Foreign(_, _)
\* the functions and the Dates a value holds, at any depth: each function
\* itself, each Date as its time value
Foreign(h, v) ==
  IF v.t = "function" THEN {v}
  ELSE IF v.t # "ref" THEN {}
  ELSE IF h[v.a].t = "array"
  THEN UNION {Foreign(h, h[v.a].items[i]) : i \in 1..Len(h[v.a].items)}
  ELSE IF h[v.a].proto = DatePrototype THEN {TreeDate(h[v.a].time)}
  ELSE UNION {Foreign(h, h[v.a].vals[i]) : i \in 1..Len(h[v.a].vals)}

\* an outcome of a call that is an error raised, not a value returned
Raised(outcome) == outcome.t = "throw"

\* C12: with enabled true, a call of maskPII on a value that holds a function
\* or a Date, at any depth, raises an error: it does not return a result.
C12_ForeignValueRaises ==
  (Called /\ GateTrue /\ Foreign(heap, input) # {}) => Raised(outputs[1])

\* what the call returns for such a value: the functions it held are in the
\* result as they were, and of the Dates none is left (each is an object
\* with no property in the result)
ForeignPassedOrDropped ==
  (Called /\ GateTrue /\ Foreign(heap, input) # {}) =>
    /\ ~Raised(outputs[1])
    /\ Foreign(heap, outputs[1]) = {f \in Foreign(heap, input) : f.t = "function"}

\* ------------------------------------------------------------------------
\* Properties of the server (under Spec)
\* ------------------------------------------------------------------------

\* what a tool has retrieved from Elasticsearch, as the operation builds it
\* from the reply
Retrieved(c) ==
  CASE c.name \in {"search_by_correlation_id", "custom_search"} -> SearchResult(c.reply.body)
    [] c.name = "get_document" -> DocumentResult(c.reply.body)
    [] c.name = "list_indices" -> IndicesResult(c.reply.body)
    [] c.name = "get_index_mapping" -> c.reply.body

\* the JSON text of a tree passed through maskPII under the configuration
\* of the server
MaskedText(tree) ==
  LET r == Alloc(<<>>, tree)
      m == maskPII(r.heap, r.val, Config.piiMasking)
  IN  JSONstringify(m.heap, m.val)

\* the last tool call was one of the five tools and Elasticsearch replied with data
Delivered == call # <<>> /\ call[1].name \in ToolNames /\ call[1].reply.ok

\* C9: with masking enabled, the response to a call of any of the five
\* tools carries what was retrieved from Elasticsearch as maskPII returns it.
C9_MaskedBeforeDelivery ==
  (Delivered /\ Config.piiMasking["enabled"] = Bool(TRUE)) =>
    response[1].content[1].text = [json |-> MaskedText(Retrieved(call[1]))]

\* the operations of the client that read
ReadOperations == {"search", "get", "cat.indices", "indices.getMapping"}

\* C10: from startup on and over any tool calls, every request the server
\* makes of the Elasticsearch client is a search, get, cat.indices or
\* indices.getMapping.
C10_ReadOnly == \A r \in esCalls : r.op \in ReadOperations

\* C10, its case: after the search of the startup and a get_document, a
\* call of the unknown tool delete_index has been answered
C10_Witness ==
  /\ call # <<>>
  /\ call[1].name = "delete_index"
  /\ {r.op : r \in esCalls} = {"search", "get"}

\* the handler has answered a tool call
Answered == call # <<>> /\ response # <<>>

\* get_document was called and Elasticsearch answered with the status 404
NotFound(c) ==
  /\ c.name = "get_document"
  /\ c.args # Undefined
  /\ ~c.reply.ok
  /\ c.reply.error.statusCode = Num(404)

\* the call failed: the name of the tool is unknown, or the operation threw
\* (the call had no arguments to read, or the request to Elasticsearch
\* failed, other than a get_document with the status 404)
Failed(c) ==
  \/ c.name \notin ToolNames
  \/ c.args = Undefined
  \/ ~c.reply.ok /\ ~NotFound(c)

\* the prefix of the message of the error each operation throws
FailurePrefix(name) ==
  CASE name \in {"search_by_correlation_id", "custom_search"} -> "Elasticsearch search failed: "
    [] name = "get_document" -> "Failed to get document: "
    [] name = "list_indices" -> "Failed to list indices: "
    [] name = "get_index_mapping" -> "Failed to get index mapping: "

\* a response with isError true and one text item, 'Error: ' and a message
ErrorResponse(r) ==
  /\ DOMAIN r = {"content", "isError"}
  /\ r.isError = TRUE
  /\ Len(r.content) = 1
  /\ r.content[1].type = "text"
  /\ DOMAIN r.content[1].text = {"error"}

\* a response without isError and with one text item, the result as JSON
NormalResponse(r) ==
  /\ DOMAIN r = {"content"}
  /\ Len(r.content) = 1
  /\ r.content[1].type = "text"
  /\ DOMAIN r.content[1].text = {"json"}

\* C13: the handler answers every tool call with a response.  When the name
\* of the tool is unknown or the operation throws, the response has isError
\* true and one text item, 'Error: ' followed by the message of the error
\* ('Unknown tool: ' and the name, or the message the operation threw);
\* when get_document gets the status 404 the response is a normal one with
\* the payload {found: false, error: 'Document not found'}; every other
\* call gets a normal response.
C13_ErrorsContained ==
  /\ (call # <<>>) <=> (response # <<>>)
  /\ Answered =>
       LET c == call[1]
           r == response[1]
       IN  /\ Failed(c) <=> ErrorResponse(r)
           /\ ~Failed(c) <=> NormalResponse(r)
           /\ c.name \notin ToolNames =>
                r.content[1].text.error = [prefix |-> "Unknown tool: ", details |-> c.name]
           /\ (Failed(c) /\ c.name \in ToolNames /\ c.args # Undefined) =>
                r.content[1].text.error.prefix = FailurePrefix(c.name)
           /\ NotFound(c) =>
                r.content[1].text.json =
                  TreeObject(<<"found", "error">>, <<Bool(FALSE), Str(<<"D", "o", "c", "u", "m", "e", "n", "t", " ", "n", "o", "t", " ", "f", "o", "u", "n", "d">>)>>)

\* C13, its case: a search whose request Elasticsearch answered with the
\* status 500 got an error response
C13_Witness ==
  /\ Answered
  /\ call[1].name = "search_by_correlation_id"
  /\ call[1].args # Undefined
  /\ ~call[1].reply.ok
  /\ call[1].reply.error.statusCode = Num(500)
  /\ ErrorResponse(response[1])

\* a get_document that got the status 404 was answered, not as an error
NotFoundAnswered == Answered /\ NotFound(call[1]) /\ NormalResponse(response[1])

\* the search main() makes to test the connection: no hits, on the index
\* pattern of the configuration
CheckRequest == EsRequest("search", Config.indexPattern, Num(0))

\* the search of main() has been answered, without an error
CheckPassed == checked # <<>> /\ checked[1].ok

\* the search of main() has been answered with an error
CheckFailed == checked # <<>> /\ ~checked[1].ok

\* a tool call is or has been in the handler
ToolCallSeen == pending # <<>> \/ call # <<>> \/ response # <<>>

\* C14: the transport is connected only once the search of main(), on the
\* configured index pattern, has succeeded, and a tool call reaches the
\* handler only when the transport is connected; when that search fails the
\* process exits with the code 1, and from then on the transport is never
\* connected, no request is made and no tool call is served.
C14_StartupOrder ==
  /\ [](/\ connected => (CheckPassed /\ CheckRequest \in esCalls)
        /\ ToolCallSeen => connected
        /\ CheckFailed <=> (exitCode = <<1>>)
        /\ CheckFailed => (pc = "exited" /\ ~connected /\ ~ToolCallSeen)
        /\ (exitCode = <<>>) \/ (exitCode = <<1>>))
  /\ [][/\ (~connected /\ connected') => (pc = "checking" /\ CheckRequest \in esCalls)
        /\ CheckFailed => (~connected' /\ esCalls' = esCalls /\ ~ToolCallSeen')]_vars

\* C14, its case: with the index pattern app-* set by the .env file, the
\* search on app-* failed and the process has exited with the code 1,
\* not connected
C14_Witness ==
  /\ envFile.exists
  /\ CheckFailed
  /\ esCalls = {EsRequest("search", Str(<<"a", "p", "p", "-", "*">>), Num(0))}
  /\ exitCode = <<1>>
  /\ pc = "exited"
  /\ ~connected

\* the server is connected after a search that succeeded and has answered a
\* tool call
ServedAfterCheck == connected /\ CheckPassed /\ Answered

\* ------------------------------------------------------------------------
\* Properties of getConfig (under ConfigSpec)
\* ------------------------------------------------------------------------

\* the variable of the environment that belongs to a key of the masking
\* configuration
PiiVariable(key) ==
  CASE key = "enabled" -> PII_MASKING_ENABLED
    [] key = "cpr" -> PII_MASK_CPR
    [] key = "email" -> PII_MASK_EMAIL
    [] key = "phone" -> PII_MASK_PHONE
    [] key = "creditCard" -> PII_MASK_CREDIT_CARD
    [] key = "ssn" -> PII_MASK_SSN

\* the variable of that key is set, to exactly that text
IsExactly(e, key, text) == PiiVariable(key) \in DOMAIN e /\ e[PiiVariable(key)] = text

\* getConfig takes this step
ConfigRead == pc = "load" /\ pc' = "loaded"

====
